---- MODULE Spec2Model ----
(***************************************************************************)
(* Conway's Game of Life on a bounded grid (rafaelbeckel/game-of-life-cli).*)
(* The grid engine (src/src/grid.rs) and the pattern catalog               *)
(* (src/src/seed.rs), driven through the calls the terminal shell makes    *)
(* on its Grid (src/src/cli.rs).                                           *)
(*                                                                         *)
(* A Cell is a pair <<x, y>> of usize values.  usize is modelled with a    *)
(* reduced range 0..USIZE_MAX so that the saturating arithmetic of the     *)
(* source keeps its meaning at both ends of the range.                     *)
(***************************************************************************)
EXTENDS Integers, Sequences, FiniteSets, TLC

\* Largest value of the (scaled down) usize type.
USIZE_MAX == 24

usize == 0..USIZE_MAX

\* A variant of the subtraction that wraps around below zero.
wrapping_sub(a, b) == (a - b) % (USIZE_MAX + 1)

\* usize::saturating_sub / usize::saturating_add
saturating_sub(a, b) == IF a >= b THEN a - b ELSE 0

saturating_add(a, b) == IF a + b <= USIZE_MAX THEN a + b ELSE USIZE_MAX

Range(s) == {s[i] : i \in DOMAIN s}

(***************************************************************************)
(* Pattern catalog: seed.rs.  A seed is named by its variant; cells(s, o)  *)
(* is the Vec<Cell> that IsSeed::cells returns, in the order of the vec!.  *)
(***************************************************************************)
Stills == {"Block", "Beehive", "Loaf", "Boat", "Tub"}

Oscillators == {"Blinker", "Toad", "Beacon", "Pulsar", "PentaDecathlon"}

Spaceships == {"Glider", "LwSpaceship", "MwSpaceship", "HwSpaceship"}

Seeds == {"Cell"} \cup Stills \cup Oscillators \cup Spaceships

\* A variant of IsSeed for Cell that returns the cell the seed holds
\* (select_seed builds Seed::Cell((0, 0))) instead of the origin.
Cell_cells_own(origin) == << <<0, 0>> >>

\* impl IsSeed for Cell
Cell_cells(origin) == << origin >>

\* impl IsSeed for Still
Still_cells(s, origin) ==
  LET x == origin[1]
      y == origin[2]
      add(a, b) == saturating_add(a, b)
      sub(a, b) == saturating_sub(a, b)
  IN  CASE s = "Block" ->
             << origin,
                <<add(x, 1), y>>,
                <<x, add(y, 1)>>,
                <<add(x, 1), add(y, 1)>> >>
        [] s = "Beehive" ->
             << origin,
                <<add(x, 1), y>>,
                <<sub(x, 1), add(y, 1)>>,
                <<add(x, 2), add(y, 1)>>,
                <<x, add(y, 2)>>,
                <<add(x, 1), add(y, 2)>> >>
        [] s = "Loaf" ->
             << origin,
                <<add(x, 1), y>>,
                <<sub(x, 1), add(y, 1)>>,
                <<add(x, 2), add(y, 1)>>,
                <<x, add(y, 2)>>,
                <<add(x, 2), add(y, 2)>>,
                <<add(x, 1), add(y, 3)>> >>
        [] s = "Boat" ->
             << origin,
                <<add(x, 1), y>>,
                <<x, add(y, 1)>>,
                <<add(x, 2), add(y, 1)>>,
                <<add(x, 1), add(y, 2)>> >>
        [] s = "Tub" ->
             << origin,
                <<sub(x, 1), add(y, 1)>>,
                <<add(x, 1), add(y, 1)>>,
                <<x, add(y, 2)>> >>

\* impl IsSeed for Oscillator
Oscillator_cells(s, origin) ==
  LET x == origin[1]
      y == origin[2]
      add(a, b) == saturating_add(a, b)
      sub(a, b) == saturating_sub(a, b)
  IN  CASE s = "Blinker" ->
             << origin,
                <<add(x, 1), y>>,
                <<add(x, 2), y>> >>
        [] s = "Toad" ->
             << origin,
                <<add(x, 1), y>>,
                <<add(x, 2), y>>,
                <<sub(x, 1), add(y, 1)>>,
                <<x, add(y, 1)>>,
                <<add(x, 1), add(y, 1)>> >>
        [] s = "Beacon" ->
             << origin,
                <<add(x, 1), y>>,
                <<x, add(y, 1)>>,
                <<add(x, 1), add(y, 1)>>,
                <<add(x, 2), add(y, 2)>>,
                <<add(x, 2), add(y, 3)>>,
                <<add(x, 3), add(y, 2)>>,
                <<add(x, 3), add(y, 3)>> >>
        [] s = "Pulsar" ->
             << origin,
                <<add(x, 1), y>>,
                <<add(x, 2), y>>,
                <<add(x, 6), y>>,
                <<add(x, 7), y>>,
                <<add(x, 8), y>>,
                <<sub(x, 2), add(y, 2)>>,
                <<add(x, 3), add(y, 2)>>,
                <<add(x, 5), add(y, 2)>>,
                <<add(x, 10), add(y, 2)>>,
                <<sub(x, 2), add(y, 3)>>,
                <<add(x, 3), add(y, 3)>>,
                <<add(x, 5), add(y, 3)>>,
                <<add(x, 10), add(y, 3)>>,
                <<sub(x, 2), add(y, 4)>>,
                <<add(x, 3), add(y, 4)>>,
                <<add(x, 5), add(y, 4)>>,
                <<add(x, 10), add(y, 4)>>,
                <<x, add(y, 5)>>,
                <<add(x, 1), add(y, 5)>>,
                <<add(x, 2), add(y, 5)>>,
                <<add(x, 6), add(y, 5)>>,
                <<add(x, 7), add(y, 5)>>,
                <<add(x, 8), add(y, 5)>>,
                <<x, add(y, 7)>>,
                <<add(x, 1), add(y, 7)>>,
                <<add(x, 2), add(y, 7)>>,
                <<add(x, 6), add(y, 7)>>,
                <<add(x, 7), add(y, 7)>>,
                <<add(x, 8), add(y, 7)>>,
                <<sub(x, 2), add(y, 8)>>,
                <<add(x, 3), add(y, 8)>>,
                <<add(x, 5), add(y, 8)>>,
                <<add(x, 10), add(y, 8)>>,
                <<sub(x, 2), add(y, 9)>>,
                <<add(x, 3), add(y, 9)>>,
                <<add(x, 5), add(y, 9)>>,
                <<add(x, 10), add(y, 9)>>,
                <<sub(x, 2), add(y, 10)>>,
                <<add(x, 3), add(y, 10)>>,
                <<add(x, 5), add(y, 10)>>,
                <<add(x, 10), add(y, 10)>>,
                <<x, add(y, 12)>>,
                <<add(x, 1), add(y, 12)>>,
                <<add(x, 2), add(y, 12)>>,
                <<add(x, 6), add(y, 12)>>,
                <<add(x, 7), add(y, 12)>>,
                <<add(x, 8), add(y, 12)>> >>
        [] s = "PentaDecathlon" ->
             << origin,
                <<x, add(y, 1)>>,
                <<sub(x, 1), add(y, 2)>>,
                <<add(x, 1), add(y, 2)>>,
                <<x, add(y, 3)>>,
                <<x, add(y, 4)>>,
                <<x, add(y, 5)>>,
                <<x, add(y, 6)>>,
                <<sub(x, 1), add(y, 7)>>,
                <<add(x, 1), add(y, 7)>>,
                <<x, add(y, 8)>>,
                <<x, add(y, 9)>> >>

\* impl IsSeed for Spaceship
Spaceship_cells(s, origin) ==
  LET x == origin[1]
      y == origin[2]
      add(a, b) == saturating_add(a, b)
      sub(a, b) == saturating_sub(a, b)
  IN  CASE s = "Glider" ->
             << origin,
                <<sub(x, 1), add(y, 1)>>,
                <<sub(x, 1), add(y, 2)>>,
                <<x, add(y, 2)>>,
                <<add(x, 1), add(y, 2)>> >>
        [] s = "LwSpaceship" ->
             << origin,
                <<add(x, 3), y>>,
                <<sub(x, 1), add(y, 1)>>,
                <<sub(x, 1), add(y, 2)>>,
                <<add(x, 3), add(y, 2)>>,
                <<sub(x, 1), add(y, 3)>>,
                <<x, add(y, 3)>>,
                <<add(x, 1), add(y, 3)>>,
                <<add(x, 2), add(y, 3)>> >>
        [] s = "MwSpaceship" ->
             << origin,
                <<sub(x, 2), add(y, 1)>>,
                <<add(x, 2), add(y, 1)>>,
                <<add(x, 3), add(y, 2)>>,
                <<sub(x, 2), add(y, 3)>>,
                <<add(x, 3), add(y, 3)>>,
                <<sub(x, 1), add(y, 4)>>,
                <<x, add(y, 4)>>,
                <<add(x, 1), add(y, 4)>>,
                <<add(x, 2), add(y, 4)>>,
                <<add(x, 3), add(y, 4)>> >>
        [] s = "HwSpaceship" ->
             << origin,
                <<add(x, 1), y>>,
                <<sub(x, 2), add(y, 1)>>,
                <<add(x, 3), add(y, 1)>>,
                <<add(x, 4), add(y, 2)>>,
                <<sub(x, 2), add(y, 3)>>,
                <<add(x, 4), add(y, 3)>>,
                <<sub(x, 1), add(y, 4)>>,
                <<x, add(y, 4)>>,
                <<add(x, 1), add(y, 4)>>,
                <<add(x, 2), add(y, 4)>>,
                <<add(x, 3), add(y, 4)>>,
                <<add(x, 4), add(y, 4)>> >>

\* seed.rs tests: the origin each test seeds at and the cells it asserts
\* (test_still_block_seed seeds at (0, 0), every other test at (2, 2)).
test_origin(s) == IF s = "Block" THEN <<0, 0>> ELSE <<2, 2>>

expected_cells(s) ==
  CASE s = "Cell" -> {<<2, 2>>}
    [] s = "Block" -> {<<0, 0>>, <<1, 0>>, <<0, 1>>, <<1, 1>>}
    [] s = "Beehive" -> {<<2, 2>>, <<3, 2>>, <<1, 3>>, <<4, 3>>, <<2, 4>>, <<3, 4>>}
    [] s = "Loaf" ->
         {<<2, 2>>, <<3, 2>>, <<1, 3>>, <<4, 3>>, <<2, 4>>, <<4, 4>>, <<3, 5>>}
    [] s = "Boat" -> {<<2, 2>>, <<3, 2>>, <<2, 3>>, <<4, 3>>, <<3, 4>>}
    [] s = "Tub" -> {<<2, 2>>, <<1, 3>>, <<3, 3>>, <<2, 4>>}
    [] s = "Blinker" -> {<<2, 2>>, <<3, 2>>, <<4, 2>>}
    [] s = "Toad" -> {<<2, 2>>, <<3, 2>>, <<4, 2>>, <<1, 3>>, <<2, 3>>, <<3, 3>>}
    [] s = "Beacon" ->
         {<<2, 2>>, <<3, 2>>, <<2, 3>>, <<3, 3>>,
          <<4, 4>>, <<5, 4>>, <<4, 5>>, <<5, 5>>}
    [] s = "Pulsar" ->
         {<<2, 2>>, <<3, 2>>, <<4, 2>>, <<8, 2>>, <<9, 2>>, <<10, 2>>,
          <<0, 4>>, <<5, 4>>, <<7, 4>>, <<12, 4>>,
          <<0, 5>>, <<5, 5>>, <<7, 5>>, <<12, 5>>,
          <<0, 6>>, <<5, 6>>, <<7, 6>>, <<12, 6>>,
          <<2, 7>>, <<3, 7>>, <<4, 7>>, <<8, 7>>, <<9, 7>>, <<10, 7>>,
          <<2, 9>>, <<3, 9>>, <<4, 9>>, <<8, 9>>, <<9, 9>>, <<10, 9>>,
          <<0, 10>>, <<5, 10>>, <<7, 10>>, <<12, 10>>,
          <<0, 11>>, <<5, 11>>, <<7, 11>>, <<12, 11>>,
          <<0, 12>>, <<5, 12>>, <<7, 12>>, <<12, 12>>,
          <<2, 14>>, <<3, 14>>, <<4, 14>>, <<8, 14>>, <<9, 14>>, <<10, 14>>}
    [] s = "PentaDecathlon" ->
         {<<2, 2>>, <<2, 3>>, <<1, 4>>, <<3, 4>>, <<2, 5>>, <<2, 6>>,
          <<2, 7>>, <<2, 8>>, <<1, 9>>, <<3, 9>>, <<2, 10>>, <<2, 11>>}
    [] s = "Glider" -> {<<2, 2>>, <<1, 3>>, <<1, 4>>, <<2, 4>>, <<3, 4>>}
    [] s = "LwSpaceship" ->
         {<<2, 2>>, <<5, 2>>, <<1, 3>>, <<1, 4>>, <<5, 4>>,
          <<1, 5>>, <<2, 5>>, <<3, 5>>, <<4, 5>>}
    [] s = "MwSpaceship" ->
         {<<2, 2>>, <<0, 3>>, <<4, 3>>, <<5, 4>>, <<0, 5>>, <<5, 5>>,
          <<1, 6>>, <<2, 6>>, <<3, 6>>, <<4, 6>>, <<5, 6>>}
    [] s = "HwSpaceship" ->
         {<<2, 2>>, <<3, 2>>, <<0, 3>>, <<5, 3>>, <<6, 4>>, <<0, 5>>, <<6, 5>>,
          <<1, 6>>, <<2, 6>>, <<3, 6>>, <<4, 6>>, <<5, 6>>, <<6, 6>>}

\* impl IsSeed for Seed: dispatch on the category
Seed_cells(s, origin) ==
  CASE s = "Cell"         -> Cell_cells(origin)
    [] s \in Stills       -> Still_cells(s, origin)
    [] s \in Oscillators  -> Oscillator_cells(s, origin)
    [] s \in Spaceships   -> Spaceship_cells(s, origin)

(***************************************************************************)
(* Grid engine: grid.rs.  A Grid is a record of the struct's five fields.  *)
(***************************************************************************)
\* The four glyphs of the rendering (grid.rs: ALIVE_CELL, DEAD_CELL,
\* ALIVE_CELL_PREVIEW, DEAD_CELL_PREVIEW), named by their code points.
ALIVE_CELL == "U+2B1B"

DEAD_CELL == "U+2B1C"

ALIVE_CELL_PREVIEW == "U+1F7E9"

DEAD_CELL_PREVIEW == "U+1F7E6"

\* A variant of Display::fmt that looks up (y, x) where it should look up
\* (x, y).
fmt_transposed(g) ==
  [i \in 1..(g.height * (g.width + 1)) |->
     LET y == (i - 1) \div (g.width + 1)
         x == (i - 1) % (g.width + 1)
     IN  IF x = g.width THEN "\n"
         ELSE CASE <<y, x>> \in g.cells /\ <<y, x>> \in g.preview -> ALIVE_CELL_PREVIEW
                [] <<y, x>> \in g.cells /\ <<y, x>> \notin g.preview -> ALIVE_CELL
                [] <<y, x>> \notin g.cells /\ <<y, x>> \in g.preview -> DEAD_CELL_PREVIEW
                [] OTHER -> DEAD_CELL]

\* impl Display for Grid: the strings written to the formatter, in order:
\* for y in 0..height, one glyph for each x in 0..width and then "\n".
fmt(g) ==
  [i \in 1..(g.height * (g.width + 1)) |->
     LET y == (i - 1) \div (g.width + 1)
         x == (i - 1) % (g.width + 1)
     IN  IF x = g.width THEN "\n"
         ELSE CASE <<x, y>> \in g.cells /\ <<x, y>> \in g.preview -> ALIVE_CELL_PREVIEW
                [] <<x, y>> \in g.cells /\ <<x, y>> \notin g.preview -> ALIVE_CELL
                [] <<x, y>> \notin g.cells /\ <<x, y>> \in g.preview -> DEAD_CELL_PREVIEW
                [] OTHER -> DEAD_CELL]

\* Grid::new
new(width, height) ==
  [preview |-> {}, cells_list |-> << >>, cells |-> {},
   width |-> width, height |-> height]

\* A variant of Grid::add_cell that forgets to push the cell on cells_list.
add_cell_not_listed(g, cell) ==
  IF cell \notin g.cells
    THEN [g EXCEPT !.cells = @ \cup {cell}, !.preview = {}]
    ELSE g

\* A variant of Grid::add_cell that clears the overlay on every call.
add_cell_clearing_preview(g, cell) ==
  IF cell \notin g.cells
    THEN [g EXCEPT !.cells = @ \cup {cell},
                   !.preview = {},
                   !.cells_list = Append(@, cell)]
    ELSE [g EXCEPT !.preview = {}]

\* Grid::add_cell: HashSet::insert returns true only for a new element
add_cell(g, cell) ==
  IF cell \notin g.cells
    THEN [g EXCEPT !.cells = @ \cup {cell},
                   !.preview = {},
                   !.cells_list = Append(@, cell)]
    ELSE g

\* A variant of the loop in which add_cell pushes without looking at what
\* insert returned.
add_cells_always_push(g, list) ==
  [g EXCEPT !.cells = @ \cup Range(list),
            !.preview = IF list = << >> THEN @ ELSE {},
            !.cells_list = @ \o list]

\* A variant of the loop in which add_cell leaves the overlay alone.
add_cells_keeping_preview(g, list) ==
  LET calls == [i \in 1..Len(list) |-> <<i, list[i]>>]
      inserted == SelectSeq(calls,
                    LAMBDA c : /\ c[2] \notin g.cells
                               /\ \A j \in 1..(c[1] - 1) : list[j] # c[2])
  IN  [g EXCEPT !.cells = @ \cup Range(list),
                !.cells_list = @ \o [k \in 1..Len(inserted) |-> inserted[k][2]]]

\* A loop of add_cell calls (for cell in list { g.add_cell(cell) }): the i-th
\* call inserts when its cell is neither in g.cells nor an earlier element
\* of list; the inserted cells are pushed in call order, and any insertion
\* clears the preview.
add_cells(g, list) ==
  LET calls == [i \in 1..Len(list) |-> <<i, list[i]>>]
      inserted == SelectSeq(calls,
                    LAMBDA c : /\ c[2] \notin g.cells
                               /\ \A j \in 1..(c[1] - 1) : list[j] # c[2])
  IN  [g EXCEPT !.cells = @ \cup Range(list),
                !.preview = IF inserted = << >> THEN @ ELSE {},
                !.cells_list = @ \o [k \in 1..Len(inserted) |-> inserted[k][2]]]

\* A variant of Grid::seed that forgets the population it is handed.
seed_on_cleared(g, s, origin) ==
  add_cells([g EXCEPT !.cells = {}, !.cells_list = << >>],
            Seed_cells(s, origin))

\* Grid::seed
seed(g, s, origin) == add_cells(g, Seed_cells(s, origin))

\* A variant of Grid::preview without the clear() of the old overlay.
preview_merging(g, s, origin) ==
  [g EXCEPT !.preview = @ \cup Range(Seed_cells(s, origin))]

\* Grid::preview
preview(g, s, origin) == [g EXCEPT !.preview = Range(Seed_cells(s, origin))]

\* A variant of Grid::clear that forgets the overlay.
clear_cells_only(g) == [g EXCEPT !.cells = {}, !.cells_list = << >>]

\* Grid::clear
clear(g) == [g EXCEPT !.cells = {}, !.preview = {}, !.cells_list = << >>]

\* A variant of Grid::for_each_neighbor_of that leaves the diagonals out.
for_each_neighbor_of_orthogonal(cell) ==
  LET x_min == saturating_sub(cell[1], 1)
      x_max == saturating_add(cell[1], 2)
      y_min == saturating_sub(cell[2], 1)
      y_max == saturating_add(cell[2], 2)
      ny == y_max - y_min
      all == [i \in 1..((x_max - x_min) * ny) |->
                <<x_min + ((i - 1) \div ny), y_min + ((i - 1) % ny)>>]
  IN  SelectSeq(all, LAMBDA n : n # cell /\ (n[1] = cell[1] \/ n[2] = cell[2]))

\* A variant of Grid::for_each_neighbor_of without the test that leaves the
\* cell itself out.
for_each_neighbor_of_with_self(cell) ==
  LET x_min == saturating_sub(cell[1], 1)
      x_max == saturating_add(cell[1], 2)
      y_min == saturating_sub(cell[2], 1)
      y_max == saturating_add(cell[2], 2)
      ny == y_max - y_min
  IN  [i \in 1..((x_max - x_min) * ny) |->
         <<x_min + ((i - 1) \div ny), y_min + ((i - 1) % ny)>>]

\* Grid::for_each_neighbor_of: the neighbours in callback order, the
\* half-open ranges x_min..x_max and y_min..y_max without the cell itself
for_each_neighbor_of(cell) ==
  LET x_min == saturating_sub(cell[1], 1)
      x_max == saturating_add(cell[1], 2)
      y_min == saturating_sub(cell[2], 1)
      y_max == saturating_add(cell[2], 2)
      ny == y_max - y_min
      all == [i \in 1..((x_max - x_min) * ny) |->
                <<x_min + ((i - 1) \div ny), y_min + ((i - 1) % ny)>>]
  IN  SelectSeq(all, LAMBDA n : n # cell)

\* A variant of Grid::count_neighbors that also counts the overlay.
count_neighbors_with_preview(g, cell) ==
  LET ns == for_each_neighbor_of(cell)
  IN  Cardinality({i \in DOMAIN ns : ns[i] \in g.cells \cup g.preview})

\* Grid::count_neighbors
count_neighbors(g, cell) ==
  LET ns == for_each_neighbor_of(cell)
  IN  Cardinality({i \in DOMAIN ns : ns[i] \in g.cells})

\* A variant of Grid::resize whose filter admits x = width and y = height.
resize_inclusive(g, width, height) ==
  IF width = g.width /\ height = g.height THEN g
  ELSE add_cells(new(width, height),
                 SelectSeq(g.cells_list,
                           LAMBDA c : c[1] <= width /\ c[2] <= height))

\* A variant of Grid::resize without the filter.
resize_unfiltered(g, width, height) ==
  IF width = g.width /\ height = g.height THEN g
  ELSE add_cells(new(width, height), g.cells_list)

\* A variant of Grid::resize without the early return.
resize_always_rebuild(g, width, height) ==
  add_cells(new(width, height),
            SelectSeq(g.cells_list,
                      LAMBDA c : c[1] < width /\ c[2] < height))

\* Grid::resize
resize(g, width, height) ==
  IF width = g.width /\ height = g.height THEN g
  ELSE add_cells(new(width, height),
                 SelectSeq(g.cells_list,
                           LAMBDA c : c[1] < width /\ c[2] < height))

\* A variant of the loop body without the births.
tick_visit_no_birth(g, cell) ==
  LET count == count_neighbors(g, cell)
  IN  IF count = 2 \/ count = 3 THEN << cell >> ELSE << >>

\* A variant of the loop body in which a live cell survives with three
\* neighbours only.
tick_visit_strict(g, cell) ==
  LET count == count_neighbors(g, cell)
  IN  (IF count = 3 THEN << cell >> ELSE << >>)
      \o SelectSeq(for_each_neighbor_of(cell),
                   LAMBDA neighbor : count_neighbors(g, neighbor) = 3)

\* A variant of the loop body that does not read a frozen snapshot: the
\* cells visited earlier in cells_list are no longer counted.
tick_visit_unfrozen(g, cell) ==
  LET list == g.cells_list
      at == CHOOSE i \in DOMAIN list : list[i] = cell
      h == [g EXCEPT !.cells = @ \ {list[i] : i \in 1..(at - 1)}]
      count == count_neighbors(h, cell)
  IN  (IF count = 2 \/ count = 3 THEN << cell >> ELSE << >>)
      \o SelectSeq(for_each_neighbor_of(cell),
                   LAMBDA neighbor : count_neighbors(h, neighbor) = 3)

\* One iteration of tick's loop: the add_cell calls it makes on next_grid,
\* in order: the cell itself when it survives, then each neighbour that has
\* exactly three live neighbours.  Every count is read from self (g).
tick_visit(g, cell) ==
  LET count == count_neighbors(g, cell)
  IN  (IF count = 2 \/ count = 3 THEN << cell >> ELSE << >>)
      \o SelectSeq(for_each_neighbor_of(cell),
                   LAMBDA neighbor : count_neighbors(g, neighbor) = 3)

\* The add_cell calls of the whole loop over self.cells_list, in order
\* (an iteration makes at most 1 + 8 calls).
tick_calls(g) ==
  LET list == g.cells_list
      slots == [k \in 1..(9 * Len(list)) |->
                  LET v == tick_visit(g, list[((k - 1) \div 9) + 1])
                      j == ((k - 1) % 9) + 1
                  IN  IF j <= Len(v) THEN << v[j] >> ELSE << >>]
      made == SelectSeq(slots, LAMBDA s : s # << >>)
  IN  [m \in 1..Len(made) |-> made[m][1]]

\* A variant of Grid::tick that carries the overlay into the next grid.
tick_keeping_preview(g) ==
  [add_cells(new(g.width, g.height), tick_calls(g)) EXCEPT !.preview = g.preview]

\* Grid::tick
tick(g) == add_cells(new(g.width, g.height), tick_calls(g))

(***************************************************************************)
(* The shell (cli.rs).  A State is modelled by the variable game and a    *)
(* record of its other fields, with pc the position of run's loop: "draw" *)
(* before draw, "input" before handle_input, "exit" once handle_input has *)
(* returned the exit signal and "panicked" after an arithmetic overflow.  *)
(* last_update and target_framerate only decide whether a frame time has  *)
(* elapsed, which draw takes as an input.                                 *)
(***************************************************************************)
U8_MAX == 255

MAX_SEEDS == 14

State_default ==
  [play |-> "Paused", origin |-> <<0, 0>>, seed_index |-> 0, pc |-> "draw"]

select_seed_modulo(index) ==
  CASE index % (MAX_SEEDS + 2) = 1 -> "Block"
    [] index % (MAX_SEEDS + 2) = 2 -> "Beehive"
    [] index % (MAX_SEEDS + 2) = 3 -> "Loaf"
    [] index % (MAX_SEEDS + 2) = 4 -> "Boat"
    [] index % (MAX_SEEDS + 2) = 5 -> "Tub"
    [] index % (MAX_SEEDS + 2) = 6 -> "Blinker"
    [] index % (MAX_SEEDS + 2) = 7 -> "Toad"
    [] index % (MAX_SEEDS + 2) = 8 -> "Beacon"
    [] index % (MAX_SEEDS + 2) = 9 -> "Pulsar"
    [] index % (MAX_SEEDS + 2) = 10 -> "PentaDecathlon"
    [] index % (MAX_SEEDS + 2) = 11 -> "Glider"
    [] index % (MAX_SEEDS + 2) = 12 -> "LwSpaceship"
    [] index % (MAX_SEEDS + 2) = 13 -> "MwSpaceship"
    [] index % (MAX_SEEDS + 2) = 14 -> "HwSpaceship"
    [] OTHER -> "Cell"

select_seed(index) ==
  CASE index = 1 -> "Block"
    [] index = 2 -> "Beehive"
    [] index = 3 -> "Loaf"
    [] index = 4 -> "Boat"
    [] index = 5 -> "Tub"
    [] index = 6 -> "Blinker"
    [] index = 7 -> "Toad"
    [] index = 8 -> "Beacon"
    [] index = 9 -> "Pulsar"
    [] index = 10 -> "PentaDecathlon"
    [] index = 11 -> "Glider"
    [] index = 12 -> "LwSpaceship"
    [] index = 13 -> "MwSpaceship"
    [] index = 14 -> "HwSpaceship"
    [] OTHER -> "Cell"

\* seed_index += 1 on a u8: past U8_MAX it panics where overflow checks are
\* compiled in and wraps where they are not.
next_seed(st) ==
  IF st.seed_index = MAX_SEEDS THEN {[st EXCEPT !.seed_index = 0]}
  ELSE IF st.seed_index < U8_MAX THEN {[st EXCEPT !.seed_index = @ + 1]}
  ELSE {[st EXCEPT !.seed_index = 0], [st EXCEPT !.pc = "panicked"]}

previous_seed(st) ==
  IF st.seed_index = 0 THEN [st EXCEPT !.seed_index = MAX_SEEDS]
  ELSE [st EXCEPT !.seed_index = @ - 1]

\* char::to_digit(16): the value of a hexadecimal digit in either case, None
\* for any other character.
None == -1

LowerDigits ==
  << "0", "1", "2", "3", "4", "5", "6", "7", "8", "9",
     "a", "b", "c", "d", "e", "f" >>

UpperDigits == << "A", "B", "C", "D", "E", "F" >>

to_digit(ch) ==
  IF \E i \in DOMAIN LowerDigits : LowerDigits[i] = ch
  THEN (CHOOSE i \in DOMAIN LowerDigits : LowerDigits[i] = ch) - 1
  ELSE IF \E i \in DOMAIN UpperDigits : UpperDigits[i] = ch
  THEN (CHOOSE i \in DOMAIN UpperDigits : UpperDigits[i] = ch) + 9
  ELSE None

is_digit(ch) == to_digit(ch) # None

\* The events event::read() delivers; Timeout is poll() returning false.
MouseEvent(kind, column, row) ==
  [type |-> "Mouse", kind |-> kind, code |-> "", ch |-> "", shift |-> FALSE,
   column |-> column, row |-> row]

KeyEvent(code, ch, shift, kind) ==
  [type |-> "Key", kind |-> kind, code |-> code, ch |-> ch, shift |-> shift,
   column |-> 0, row |-> 0]

OtherEvent(type) ==
  [type |-> type, kind |-> "", code |-> "", ch |-> "", shift |-> FALSE,
   column |-> 0, row |-> 0]

Timeout == OtherEvent("Timeout")

\* What a handler leaves: the State fields, the grid, and the Grid calls it
\* made in order.
Out(st, g, calls) == [state |-> st, game |-> g, calls |-> calls]

\* game.preview(select_seed(state.seed_index), state.origin)
preview_selected(st, g) ==
  Out(st, preview(g, select_seed(st.seed_index), st.origin),
      << [op |-> "preview", arg |-> <<select_seed(st.seed_index), st.origin>>] >>)

\* KeyCode::Pause | 'p' | 'P'
on_pause(st, g) ==
  IF st.play = "Paused" THEN Out([st EXCEPT !.play = "Playing"], g, << >>)
  ELSE preview_selected([st EXCEPT !.play = "Paused"], g)

on_enter_ticking(st, g) ==
  Out([st EXCEPT !.play = "Paused"], tick(g),
      << [op |-> "tick", arg |-> << >>] >>)

\* KeyCode::Enter
on_enter(st, g) ==
  IF st.play = "Paused"
  THEN Out(st, tick(g), << [op |-> "tick", arg |-> << >>] >>)
  ELSE preview_selected([st EXCEPT !.play = "Paused"], g)

\* The arm of a pressed key
on_key(st, g, ev) ==
  LET speed == IF ev.shift THEN 5 ELSE 1 IN
  CASE ev.code = "Esc" \/ (ev.code = "Char" /\ ev.ch \in {"q", "Q"}) ->
         Out([st EXCEPT !.pc = "exit"], g, << >>)
    [] ev.code = "Pause" \/ (ev.code = "Char" /\ ev.ch \in {"p", "P"}) ->
         on_pause(st, g)
    [] ev.code = "Insert" \/ (ev.code = "Char" /\ ev.ch = " ") ->
         Out(st, seed(g, select_seed(st.seed_index), st.origin),
             << [op |-> "seed",
                 arg |-> <<select_seed(st.seed_index), st.origin>>] >>)
    [] ev.code = "Left" ->
         preview_selected(
           [st EXCEPT !.origin[1] = saturating_sub(@, speed)], g)
    [] ev.code = "Right" ->
         preview_selected(
           IF st.origin[1] + speed <= g.width
           THEN [st EXCEPT !.origin[1] = @ + speed] ELSE st, g)
    [] ev.code = "Up" ->
         preview_selected(
           [st EXCEPT !.origin[2] = saturating_sub(@, speed)], g)
    [] ev.code = "Down" ->
         preview_selected(
           IF st.origin[2] + speed <= g.height
           THEN [st EXCEPT !.origin[2] = @ + speed] ELSE st, g)
    [] ev.code = "Delete" ->
         Out(st, clear(g), << [op |-> "clear", arg |-> << >>] >>)
    [] ev.code = "Enter" -> on_enter(st, g)
    [] ev.code = "Char" /\ ev.ch \notin {"q", "Q", "p", "P", " "} ->
         preview_selected(
           IF is_digit(ev.ch)
           THEN [st EXCEPT !.seed_index = to_digit(ev.ch) % (U8_MAX + 1)]
           ELSE st, g)
    [] OTHER -> Out(st, g, << >>)

\* The arm of a mouse event
on_mouse(st, g, ev) ==
  CASE ev.kind = "Down" ->
         {Out(st, seed(g, select_seed(st.seed_index), <<ev.row, ev.column>>),
              << [op |-> "seed",
                  arg |-> <<select_seed(st.seed_index),
                            <<ev.row, ev.column>>>>] >>)}
    [] ev.kind = "ScrollDown" -> {Out(n, g, << >>) : n \in next_seed(st)}
    [] ev.kind = "ScrollUp" -> {Out(previous_seed(st), g, << >>)}
    [] ev.kind = "Moved" ->
         {Out(st, preview(g, select_seed(st.seed_index), <<ev.row, ev.column>>),
              << [op |-> "preview",
                  arg |-> <<select_seed(st.seed_index),
                            <<ev.row, ev.column>>>>] >>)}
    [] OTHER -> {Out(st, g, << >>)}

\* handle_input: the outcomes of one call on the event ev
handle_input(st, g, ev) ==
  CASE ev.type = "Mouse" -> on_mouse(st, g, ev)
    [] ev.type = "Key" /\ ev.kind = "Press" -> {on_key(st, g, ev)}
    [] OTHER -> {Out(st, g, << >>)}

\* draw on a frame whose middle area is area = <<width, height>>; elapsed
\* says whether the frame time has passed since last_update.
draw(st, g, area, elapsed) ==
  LET resized == resize(g, area[1], area[2])
      sized == << [op |-> "resize", arg |-> area] >>
      drawn ==
        IF st.play = "Playing"
        THEN IF elapsed
             THEN Out(st, tick(resized),
                      Append(sized, [op |-> "tick", arg |-> << >>]))
             ELSE Out(st, resized, sized)
        ELSE Out(st, preview(resized, select_seed(st.seed_index), st.origin),
                 Append(sized,
                        [op |-> "preview",
                         arg |-> <<select_seed(st.seed_index), st.origin>>]))
  IN [drawn EXCEPT !.calls = Append(@, [op |-> "fmt", arg |-> fmt(drawn.game)])]

\* run, up to its loop, on a terminal of size = <<width, height>>
run(size) ==
  Out([State_default EXCEPT
         !.origin = <<size[1] \div 4, (size[2] \div 2) - (size[2] \div 15)>>],
      new(size[1] \div 2, size[2] \div 2), << >>)

(***************************************************************************)
(* State.  game is the Grid the caller owns (cli.rs: State.game).  before  *)
(* is the Grid as it was when the last call was made and last_call names   *)
(* that call and its arguments.  ticks counts the tick() calls since the   *)
(* caller last edited the population (seed, add_cell, clear).  placed      *)
(* names the pattern and origin of a single pattern seeded on an empty     *)
(* grid, with orbit the live sets since: orbit[1] is the seeded set and    *)
(* orbit[k + 1] the live set after k ticks.  state holds the other fields  *)
(* of the shell's State (cli.rs) and the position of its loop.             *)
(***************************************************************************)
VARIABLES game, before, last_call, placed, ticks, state

vars == << game, before, last_call, placed, ticks, state >>

\* Bounds of the model: the largest population the caller builds by placing
\* cells (generations may grow it further), the generations computed in a
\* row, the side of the small grid, the generations a placed pattern is
\* followed for.
MaxCells == 3

MaxRun == 1

MaxDim == 3

MaxTicks == 15

\* Dimensions <<width, height>> a grid is created with or resized to.
DimInputs == {<<0, MaxDim>>, <<MaxDim - 1, MaxDim>>, <<MaxDim, MaxDim>>}

\* Spec: cells handed to add_cell, patterns and origins handed to seed and
\* preview.
CellInputs == {<<0, 0>>, <<MaxDim - 1, 1>>}

SeedInputs == {"Cell", "Blinker"}

OriginInputs == {<<0, 1>>}

\* TickSpec: a small grid and one as wide as the plane; cells in a corner
\* of the plane and in its last column, and a pattern placed at the corner
\* and on the last row of the small grid.
TickDims == {<<MaxDim, MaxDim>>, <<USIZE_MAX, MaxDim>>}

TickCells ==
  {<<0, 0>>, <<1, 0>>, <<1, 1>>,
   <<USIZE_MAX, 0>>, <<USIZE_MAX, 1>>, <<USIZE_MAX, 2>>}

TickSeeds == {"Blinker"}

TickOrigins == {<<0, 0>>, <<0, MaxDim - 1>>}

\* PatternSpec: the patterns followed and the coordinates of their origins,
\* at both ends of the plane.
PatternSeeds == Seeds

PatternCoords ==
  {0, 1, 2, 5, USIZE_MAX - 4, USIZE_MAX - 3, USIZE_MAX - 1}

NoCall == [op |-> "new", arg |-> << >>]

Call(op, arg) == [op |-> op, arg |-> arg]

NoPattern == [seed |-> "none", origin |-> <<0, 0>>, orbit |-> << >>]

Init ==
  /\ \E d \in DimInputs : game = new(d[1], d[2])
  /\ before = game
  /\ last_call = NoCall
  /\ placed = NoPattern
  /\ ticks = 0
  /\ state = State_default

\* grid.seed(s, origin)
Seed(s, origin) ==
  /\ Cardinality(seed(game, s, origin).cells) <= MaxCells
  /\ game' = seed(game, s, origin)
  /\ before' = game
  /\ last_call' = Call("seed", <<s, origin>>)
  /\ ticks' = 0
  /\ UNCHANGED << placed, state >>

\* grid.add_cell(cell)
AddCell(cell) ==
  /\ Cardinality(add_cell(game, cell).cells) <= MaxCells
  /\ game' = add_cell(game, cell)
  /\ before' = game
  /\ last_call' = Call("add_cell", <<cell>>)
  /\ ticks' = 0
  /\ UNCHANGED << placed, state >>

\* grid.preview(s, origin)
Preview(s, origin) ==
  /\ game' = preview(game, s, origin)
  /\ before' = game
  /\ last_call' = Call("preview", <<s, origin>>)
  /\ UNCHANGED << placed, ticks, state >>

\* grid.resize(width, height)
Resize(width, height) ==
  /\ game' = resize(game, width, height)
  /\ before' = game
  /\ last_call' = Call("resize", <<width, height>>)
  /\ UNCHANGED << placed, ticks, state >>

\* grid.clear()
Clear ==
  /\ game' = clear(game)
  /\ before' = game
  /\ last_call' = Call("clear", << >>)
  /\ ticks' = 0
  /\ UNCHANGED << placed, state >>

\* grid.tick()
Tick ==
  /\ ticks < MaxRun
  /\ game' = tick(game)
  /\ before' = game
  /\ last_call' = Call("tick", << >>)
  /\ ticks' = ticks + 1
  /\ UNCHANGED << placed, state >>

\* format!("{}", grid): Display::fmt takes &self; last_call keeps the text
Display ==
  /\ game' = game
  /\ before' = game
  /\ last_call' = Call("fmt", fmt(game))
  /\ UNCHANGED << placed, ticks, state >>

Next ==
  \/ \E s \in SeedInputs, origin \in OriginInputs : Seed(s, origin)
  \/ \E cell \in CellInputs : AddCell(cell)
  \/ \E s \in SeedInputs, origin \in OriginInputs : Preview(s, origin)
  \/ \E d \in DimInputs : Resize(d[1], d[2])
  \/ Clear
  \/ Tick
  \/ Display

Spec == Init /\ [][Next]_vars

(***************************************************************************)
(* TickSpec: cells and patterns are placed on a grid and generations are   *)
(* computed; no other call is made.                                        *)
(***************************************************************************)
TickInit ==
  /\ \E d \in TickDims : game = new(d[1], d[2])
  /\ before = game
  /\ last_call = NoCall
  /\ placed = NoPattern
  /\ ticks = 0
  /\ state = State_default

TickNext ==
  \/ \E s \in TickSeeds, origin \in TickOrigins : Seed(s, origin)
  \/ \E cell \in TickCells : AddCell(cell)
  \/ Tick

TickSpec == TickInit /\ [][TickNext]_vars

(***************************************************************************)
(* PatternSpec: one pattern is seeded alone on the empty grid that is as   *)
(* large as the plane, and its generations are followed.                   *)
(***************************************************************************)
PatternInit ==
  /\ game = new(USIZE_MAX, USIZE_MAX)
  /\ before = game
  /\ last_call = NoCall
  /\ placed = NoPattern
  /\ ticks = 0
  /\ state = State_default

\* grid.seed(s, origin) on the empty grid
Place(s, origin) ==
  /\ placed = NoPattern
  /\ game.cells = {}
  /\ game' = seed(game, s, origin)
  /\ before' = game
  /\ last_call' = Call("seed", <<s, origin>>)
  /\ placed' = [seed |-> s, origin |-> origin, orbit |-> << game'.cells >>]
  /\ ticks' = 0
  /\ UNCHANGED state

\* grid.tick() on the grid the pattern was seeded on
Step ==
  /\ placed # NoPattern
  /\ ticks < MaxTicks
  /\ game' = tick(game)
  /\ before' = game
  /\ last_call' = Call("tick", << >>)
  /\ placed' = [placed EXCEPT !.orbit = Append(@, game'.cells)]
  /\ ticks' = ticks + 1
  /\ UNCHANGED state

PatternNext ==
  \/ \E s \in PatternSeeds, x \in PatternCoords, y \in PatternCoords :
       Place(s, <<x, y>>)
  \/ Step

PatternSpec == PatternInit /\ [][PatternNext]_vars

(***************************************************************************)
(* ShellSpec and SelectSpec: run's loop, draw then handle_input, on the    *)
(* events drawn from ShellEvents (every kind of event, the selection key   *)
(* "0") and from SelectEvents (the scroll wheel, every character   *)
(* key that selects and one that does not, the mouse).  In last_call the  *)
(* call is the handler, with its input, the play state it started in and  *)
(* the Grid calls it made.                                                 *)
(***************************************************************************)
TermSizes == {<<1, 2>>}

AreaInputs == {<<1, 1>>}

\* <<column, row>> of a mouse event
MouseInputs == {<<0, 1>>}

SelectChars ==
  {LowerDigits[i] : i \in DOMAIN LowerDigits} \cup
  {UpperDigits[i] : i \in DOMAIN UpperDigits} \cup {"g"}

SelectEvents ==
  {MouseEvent(k, m[1], m[2]) :
     k \in {"ScrollDown", "ScrollUp", "Moved"}, m \in MouseInputs} \cup
  {KeyEvent("Char", ch, FALSE, "Press") : ch \in SelectChars}

ShellEvents ==
  {MouseEvent(k, m[1], m[2]) :
     k \in {"Down", "Moved", "Drag"}, m \in MouseInputs} \cup
  {KeyEvent(code, "", shift, "Press") :
     code \in {"Left", "Right", "Up", "Down"}, shift \in BOOLEAN} \cup
  {KeyEvent(code, "", FALSE, "Press") :
     code \in {"Esc", "Pause", "Insert", "Delete", "Enter", "Tab"}} \cup
  {KeyEvent("Char", ch, FALSE, "Press") : ch \in {"p", " ", "0", "g"}} \cup
  {KeyEvent("Enter", "", FALSE, "Release"), OtherEvent("Resize"), Timeout}

ShellInit ==
  /\ \E size \in TermSizes :
       /\ game = run(size).game
       /\ state = run(size).state
  /\ before = game
  /\ last_call = NoCall
  /\ placed = NoPattern
  /\ ticks = 0

Ops(calls) == {calls[i].op : i \in DOMAIN calls}

\* draw(&mut terminal, &mut state)
Draw(area, elapsed) ==
  /\ state.pc = "draw"
  /\ \E r \in {draw(state, game, area, elapsed)} :
       /\ "tick" \in Ops(r.calls) => ticks < MaxRun
       /\ game' = r.game
       /\ state' = [r.state EXCEPT !.pc = "input"]
       /\ before' = game
       /\ last_call' = Call("draw", [event |-> OtherEvent("Frame"),
                                     play |-> state.play, calls |-> r.calls])
       /\ ticks' = IF "tick" \in Ops(r.calls) THEN ticks + 1 ELSE ticks
  /\ UNCHANGED placed

\* handle_input(&mut state)
HandleInput(ev) ==
  /\ state.pc = "input"
  /\ \E r \in handle_input(state, game, ev) :
       /\ "seed" \in Ops(r.calls) => Cardinality(r.game.cells) <= MaxCells
       /\ "tick" \in Ops(r.calls) => ticks < MaxRun
       /\ game' = r.game
       /\ state' = IF r.state.pc = "input"
                   THEN [r.state EXCEPT !.pc = "draw"] ELSE r.state
       /\ before' = game
       /\ last_call' = Call("handle_input",
                            [event |-> ev, play |-> state.play,
                             calls |-> r.calls])
       /\ ticks' = IF Ops(r.calls) \cap {"seed", "clear"} # {} THEN 0
                   ELSE IF "tick" \in Ops(r.calls) THEN ticks + 1 ELSE ticks
  /\ UNCHANGED placed

ShellNext ==
  \/ \E area \in AreaInputs, elapsed \in BOOLEAN : Draw(area, elapsed)
  \/ \E ev \in ShellEvents : HandleInput(ev)

ShellSpec == ShellInit /\ [][ShellNext]_vars

SelectNext ==
  \/ \E area \in AreaInputs, elapsed \in BOOLEAN : Draw(area, elapsed)
  \/ \E ev \in SelectEvents : HandleInput(ev)

SelectSpec == ShellInit /\ [][SelectNext]_vars

(***************************************************************************)
(* Properties.  A property about a call is stated on the state the call    *)
(* leaves: last_call names the call, before is the grid it was made on and *)
(* game the grid it produced.                                              *)
(***************************************************************************)
\* The neighbouring coordinates of a cell: the cells of the plane at
\* distance one in x, in y or in both.
Moore(c) ==
  {n \in (saturating_sub(c[1], 1)..saturating_add(c[1], 1))
         \X (saturating_sub(c[2], 1)..saturating_add(c[2], 1)) : n # c}

LiveNeighbours(S, c) == Cardinality(Moore(c) \cap S)

InBounds(g) == \A c \in g.cells : c[1] < g.width /\ c[2] < g.height

\* A set of cells lies strictly inside the grid: every cell and every one of
\* its eight neighbouring coordinates is a cell of the grid (so no cell is
\* on the x = 0 or y = 0 axis or on the last column or row).
StrictlyInside(S) ==
  \A c \in S : /\ c[1] >= 1
               /\ c[2] >= 1
               /\ c[1] + 1 < game.width
               /\ c[2] + 1 < game.height

Translate(S, dx, dy) == {<<c[1] + dx, c[2] + dy>> : c \in S}

\* C1: a live cell, inside the grid or not, is live after tick() iff
\* exactly 2 or exactly 3 of its 8 neighbouring coordinates were live.
C1_Survival ==
  last_call.op = "tick" =>
    \A c \in before.cells :
      (c \in game.cells) <=> (LiveNeighbours(before.cells, c) \in {2, 3})

\* C2: a cell of the grid that is not live is live after tick() iff exactly
\* 3 of its 8 neighbouring coordinates were live; an empty grid stays empty.
C2_Birth ==
  last_call.op = "tick" =>
    /\ \A x \in 0..(before.width - 1), y \in 0..(before.height - 1) :
         <<x, y>> \notin before.cells =>
           ((<<x, y>> \in game.cells)
              <=> (LiveNeighbours(before.cells, <<x, y>>) = 3))
    /\ (before.cells = {} => game.cells = {})

\* C3: when every live cell is inside the grid before tick(), every live
\* cell is inside the grid after it.
C3_NoBirthOutside ==
  (last_call.op = "tick" /\ InBounds(before)) => InBounds(game)

\* The next generation as a function of the live set alone: the rule applied
\* with the neighbourhoods the engine enumerates.
NextGeneration(S) ==
  LET g == [new(0, 0) EXCEPT !.cells = S]
      near == UNION {Range(for_each_neighbor_of(c)) : c \in S}
  IN  {c \in S : count_neighbors(g, c) \in {2, 3}}
        \cup {n \in near : count_neighbors(g, n) = 3}

\* cells_list with the entries at positions i and i + 1 exchanged
Exchange(list, i) ==
  [k \in DOMAIN list |->
     IF k = i THEN list[i + 1] ELSE IF k = i + 1 THEN list[i] ELSE list[k]]

Reverse(list) == [k \in DOMAIN list |-> list[Len(list) + 1 - k]]

\* The insertion orders compared with the one the grid has: each exchange
\* of two adjacent entries (they generate every order) and the reversal.
Reorderings(list) ==
  {Exchange(list, i) : i \in 1..(Len(list) - 1)} \cup {Reverse(list)}

\* C4: the live set after tick() is a function of the live set before it:
\* it is the rule applied to the pre-tick population, and a grid with the
\* same cells in another insertion order ticks to the same live set.
C4_FrozenSnapshot ==
  last_call.op = "tick" =>
    /\ game.cells = NextGeneration(before.cells)
    /\ \A list \in Reorderings(before.cells_list) :
         tick([before EXCEPT !.cells_list = list]).cells = game.cells

C4_Witness ==
  /\ last_call.op = "tick"
  /\ Len(before.cells_list) >= 3
  /\ game.cells # {}
  /\ game.cells # before.cells

\* C5: a Blinker seeded alone on an empty grid, the pattern and its
\* neighbouring cells strictly inside the grid, has another live set after
\* 1 tick and the seeded live set after 2 ticks.
C5_BlinkerPeriod ==
  (placed.seed = "Blinker" /\ StrictlyInside(Range(Seed_cells("Blinker", placed.origin)))) =>
    /\ Len(placed.orbit) >= 2 => placed.orbit[2] # placed.orbit[1]
    /\ Len(placed.orbit) >= 3 => placed.orbit[3] = placed.orbit[1]

C5_Witness ==
  /\ placed.seed = "Blinker"
  /\ StrictlyInside(placed.orbit[1])
  /\ Len(placed.orbit) = 3
  /\ placed.orbit[3] = game.cells

\* A Glider was seeded alone and followed for 4 ticks, and every live set on
\* the way lies strictly inside the grid, away from the axes.
GliderHadRoom ==
  /\ placed.seed = "Glider"
  /\ Len(placed.orbit) >= 5
  /\ \A k \in 1..5 : StrictlyInside(placed.orbit[k])

\* C6 (as stated): the live set of a Glider with room after exactly 4 ticks
\* is the seeded live set translated by (+1,+1).
C6_GliderDownRight ==
  GliderHadRoom => placed.orbit[5] = Translate(placed.orbit[1], 1, 1)

\* C6 (amended): the live set of a Glider with room after exactly 4 ticks is
\* the seeded live set translated by (-1,+1).
C6_GliderDownLeft ==
  GliderHadRoom => placed.orbit[5] = Translate(placed.orbit[1], 0 - 1, 1)

C6_Witness == GliderHadRoom /\ Len(placed.orbit) = 5 /\ ticks = 4

\* C7: at every origin a Block seeded alone on an empty grid is a fixed
\* point of tick(): after any number of ticks the live set is the four
\* seeded cells.
C7_BlockFixed ==
  placed.seed = "Block" =>
    \A k \in DOMAIN placed.orbit :
      placed.orbit[k] = Range(Seed_cells("Block", placed.origin))

\* C8: Beehive, Loaf, Boat and Tub, seeded alone on an empty grid at any
\* origin, have the seeded live set after one tick().
C8_StillsFixed ==
  (placed.seed \in {"Beehive", "Loaf", "Boat", "Tub"} /\ Len(placed.orbit) >= 2) =>
    placed.orbit[2] = placed.orbit[1]

\* C9: preview does not interfere with tick(): the live set tick() leaves
\* is the one it leaves on the same grid without an overlay, and the one it
\* leaves after preview(pattern, origin) for every pattern.
C9_PreviewNonInterference ==
  last_call.op = "tick" =>
    /\ game.cells = tick([before EXCEPT !.preview = {}]).cells
    /\ \A s \in Seeds, origin \in OriginInputs :
         tick(preview(before, s, origin)).cells = game.cells

C9_Witness ==
  /\ last_call.op = "tick"
  /\ before.preview # {}
  /\ before.cells # {}
  /\ game.cells # {}

\* C10: after seed(pattern, origin) the live set is the previous live set
\* united with the pattern's expanded cells for that origin; on a grid that
\* was empty a cell is live iff it is one of the expanded cells.
C10_SeedIsUnion ==
  last_call.op = "seed" =>
    LET expanded == Range(Seed_cells(last_call.arg[1], last_call.arg[2]))
    IN  /\ game.cells = before.cells \cup expanded
        /\ before.cells = {} =>
             \A c \in usize \X usize : (c \in game.cells) <=> (c \in expanded)

C10_Witness ==
  /\ last_call.op = "seed"
  /\ before.cells # {}
  /\ before.cells \cap Range(Seed_cells(last_call.arg[1], last_call.arg[2])) # {}
  /\ game.cells # before.cells

\* The expanded cells of the pattern handed to the last seed or preview call
Expanded == Range(Seed_cells(last_call.arg[1], last_call.arg[2]))

NoDuplicates(list) ==
  \A i, j \in DOMAIN list : list[i] = list[j] => i = j

\* C11: seed is idempotent: after seed(pattern, origin) the same call again
\* leaves the live set and cells_list as they are, cells_list has no
\* duplicate entry, and a seed of cells that are all live changes neither.
C11_SeedIdempotent ==
  last_call.op = "seed" =>
    LET again == seed(game, last_call.arg[1], last_call.arg[2])
    IN  /\ again.cells = game.cells
        /\ again.cells_list = game.cells_list
        /\ NoDuplicates(game.cells_list)
        /\ Expanded \subseteq before.cells =>
             (game.cells = before.cells /\ game.cells_list = before.cells_list)

C11_Witness ==
  /\ last_call.op = "seed"
  /\ Cardinality(Expanded) >= 2
  /\ Expanded \subseteq before.cells
  /\ Len(game.cells_list) = Cardinality(game.cells)

\* C12 (as stated): the preview overlay is empty after every seed call.
C12_SeedClearsPreview ==
  last_call.op = "seed" => game.preview = {}

\* C12 (amended): after seed(pattern, origin) the preview overlay is empty
\* when a cell of the pattern was not live before; when every cell of the
\* pattern was live the call changes nothing, the overlay included.
C12_SeedClearsPreviewOnInsert ==
  last_call.op = "seed" =>
    IF Expanded \subseteq before.cells
      THEN game = before
      ELSE game.preview = {}

C12_Witness ==
  /\ last_call.op = "seed"
  /\ before.preview # {}
  /\ Expanded \subseteq before.cells
  /\ game.preview = before.preview

\* C13: add_cell of a cell that is live is a no-op on the whole state:
\* cells, cells_list, preview, width and height are unchanged.
C13_AddLiveCellNoOp ==
  (last_call.op = "add_cell" /\ last_call.arg[1] \in before.cells) =>
    game = before

C13_Witness ==
  /\ last_call.op = "add_cell"
  /\ last_call.arg[1] \in before.cells
  /\ before.preview # {}
  /\ game.preview = before.preview

\* C14: after preview(pattern, origin) the overlay is exactly the pattern's
\* expanded cells, and cells, cells_list, width and height are unchanged.
C14_PreviewReplaces ==
  last_call.op = "preview" =>
    /\ game.preview = Expanded
    /\ game = [before EXCEPT !.preview = game.preview]

C14_Witness ==
  /\ last_call.op = "preview"
  /\ before.preview # {}
  /\ ~(before.preview \subseteq game.preview)
  /\ before.cells # {}

\* The last call was a resize to other dimensions than the grid had.
ResizeChangedDims ==
  /\ last_call.op = "resize"
  /\ last_call.arg # <<before.width, before.height>>

\* C15: resize(w, h) to other dimensions sets width = w and height = h and
\* leaves live exactly the cells that were live with x < w and y < h.
C15_ResizeKeepsInBounds ==
  ResizeChangedDims =>
    /\ game.width = last_call.arg[1]
    /\ game.height = last_call.arg[2]
    /\ game.cells = {c \in before.cells : c[1] < game.width /\ c[2] < game.height}

C15_Witness ==
  /\ ResizeChangedDims
  /\ game.cells # {}
  /\ game.cells # before.cells

\* C16 (as stated): after any resize call every live cell satisfies
\* x < width and y < height.
C16_ResizeInBounds ==
  last_call.op = "resize" => InBounds(game)

\* C16 (amended): after a resize call that changes the dimensions every
\* live cell satisfies x < width and y < height; a resize to the current
\* dimensions leaves the live set as it is, cells outside the bounds
\* included.
C16_ResizeInBoundsWhenChanged ==
  /\ ResizeChangedDims => InBounds(game)
  /\ (last_call.op = "resize" /\ ~ResizeChangedDims) => game.cells = before.cells

C16_Witness ==
  /\ ResizeChangedDims
  /\ ~InBounds(before)
  /\ game.cells # {}

\* C17: resize(w, h) with w the current width and h the current height is
\* a no-op: cells, cells_list, preview, width and height are unchanged.
C17_ResizeSameDimsNoOp ==
  (last_call.op = "resize" /\ last_call.arg = <<before.width, before.height>>) =>
    game = before

C17_Witness ==
  /\ last_call.op = "resize"
  /\ last_call.arg = <<before.width, before.height>>
  /\ before.preview # {}
  /\ before.cells # {}
  /\ game.preview # {}

\* C18: after a resize that changes the dimensions and after a tick() the
\* preview overlay is empty.
C18_ReconstructionDropsPreview ==
  (ResizeChangedDims \/ last_call.op = "tick") => game.preview = {}

C18_Witness ==
  /\ ResizeChangedDims \/ last_call.op = "tick"
  /\ before.preview # {}
  /\ game.cells # {}

\* C19: after clear() the live set, cells_list and the preview overlay are
\* empty and width and height are unchanged.
C19_ClearEmpties ==
  last_call.op = "clear" =>
    /\ game.cells = {}
    /\ game.cells_list = << >>
    /\ game.preview = {}
    /\ game.width = before.width
    /\ game.height = before.height

C19_Witness ==
  /\ last_call.op = "clear"
  /\ before.cells # {}
  /\ before.preview # {}

\* C20: a grid of zero area (width = 0 or height = 0) holds no live cell.
C20_ZeroAreaEmpty ==
  (game.width = 0 \/ game.height = 0) => game.cells = {}

\* The glyph the rendering owes the cell (x, y)
GlyphOf(g, x, y) ==
  IF <<x, y>> \in g.cells
    THEN (IF <<x, y>> \in g.preview THEN ALIVE_CELL_PREVIEW ELSE ALIVE_CELL)
    ELSE (IF <<x, y>> \in g.preview THEN DEAD_CELL_PREVIEW ELSE DEAD_CELL)

\* C21: the rendering is height rows of width glyphs, each row followed by
\* a newline; the glyph at row y, column x is one of four distinct glyphs
\* chosen by whether (x, y) is in cells and whether it is in preview; the
\* grid is as it was.
C21_Rendering ==
  last_call.op = "fmt" =>
    LET text == last_call.arg
        w == game.width
        h == game.height
    IN  /\ Len(text) = h * (w + 1)
        /\ \A y \in 0..(h - 1) :
             /\ text[y * (w + 1) + w + 1] = "\n"
             /\ \A x \in 0..(w - 1) : text[y * (w + 1) + x + 1] = GlyphOf(game, x, y)
        /\ Cardinality({ALIVE_CELL, DEAD_CELL, ALIVE_CELL_PREVIEW, DEAD_CELL_PREVIEW, "\n"}) = 5
        /\ game = before

C21_Witness ==
  /\ last_call.op = "fmt"
  /\ {last_call.arg[i] : i \in DOMAIN last_call.arg}
       = {ALIVE_CELL, DEAD_CELL, ALIVE_CELL_PREVIEW, DEAD_CELL_PREVIEW, "\n"}
  /\ game.width # game.height

\* C27: in every reachable state cells_list has no duplicate and its set
\* of elements is the live set cells.
C27_ListIsLiveSet ==
  /\ NoDuplicates(game.cells_list)
  /\ Range(game.cells_list) = game.cells

C27_Witness ==
  /\ last_call.op = "tick"
  /\ Len(game.cells_list) >= 3
  /\ Range(game.cells_list) # before.cells

\* The offsets of a variant's layout: the cells its test asserts, relative
\* to the origin the test seeds at.
Offsets(s) ==
  {<<c[1] - test_origin(s)[1], c[2] - test_origin(s)[2]>> : c \in expected_cells(s)}

Min(a, b) == IF a <= b THEN a ELSE b

Max(a, b) == IF a >= b THEN a ELSE b

\* C23 (as stated): seeding an empty grid at (2,2) yields the cells the
\* variant's test asserts, and at every origin with x >= 2 those cells
\* translated by (x-2, y-2).
C23_LayoutTranslated ==
  placed.seed # "none" =>
    /\ placed.origin = <<2, 2>> => placed.orbit[1] = expected_cells(placed.seed)
    /\ placed.origin[1] >= 2 =>
         placed.orbit[1] = Translate(expected_cells(placed.seed),
                                     placed.origin[1] - 2, placed.origin[2] - 2)

\* C23 (amended): at every origin with x >= 2 the seeded cells are the
\* cells the variant's test asserts, translated from the origin the test
\* seeds at to the origin, each coordinate that would pass the largest
\* usize value placed at that value.
C23_LayoutTranslatedSaturating ==
  (placed.seed # "none" /\ placed.origin[1] >= 2) =>
    placed.orbit[1] =
      {<<Min(placed.origin[1] + d[1], USIZE_MAX),
         Min(placed.origin[2] + d[2], USIZE_MAX)>> : d \in Offsets(placed.seed)}

C23_Witness ==
  /\ placed.seed = "Pulsar"
  /\ placed.origin = <<2, 2>>
  /\ placed.orbit[1] = expected_cells("Pulsar")
  /\ ticks = 0

\* The leftward extent of a variant's layout
LeftExtent(s) ==
  CASE s \in {"Beehive", "Loaf", "Tub", "Toad", "PentaDecathlon", "Glider", "LwSpaceship"} -> 1
    [] s \in {"Pulsar", "MwSpaceship", "HwSpaceship"} -> 2
    [] OTHER -> 0

\* C24 (as stated): at an origin whose x is smaller than the variant's
\* leftward extent, a cell whose x would be negative is placed at x = 0 with
\* its y at origin + offset, every other cell at origin + offset.
C24_ClampAtZero ==
  (placed.seed # "none" /\ placed.origin[1] < LeftExtent(placed.seed)) =>
    placed.orbit[1] =
      {<<Max(placed.origin[1] + d[1], 0), placed.origin[2] + d[2]>> :
         d \in Offsets(placed.seed)}

\* C24 (amended): as C24, with each y that would pass the largest usize
\* value placed at that value; the leftward extents are those of the
\* layouts.
C24_ClampAtZeroSaturating ==
  placed.seed # "none" =>
    /\ LeftExtent(placed.seed) =
         Max(0, 0 - (CHOOSE m \in {d[1] : d \in Offsets(placed.seed)} :
                       \A d \in Offsets(placed.seed) : m <= d[1]))
    /\ placed.origin[1] < LeftExtent(placed.seed) =>
         placed.orbit[1] =
           {<<Max(placed.origin[1] + d[1], 0),
              Min(placed.origin[2] + d[2], USIZE_MAX)>> : d \in Offsets(placed.seed)}

C24_Witness ==
  /\ placed.seed = "Pulsar"
  /\ placed.origin = <<1, 0>>
  /\ <<0, 2>> \in placed.orbit[1]
  /\ <<2, 0>> \in placed.orbit[1]

\* The least number of ticks after which an oscillator is back
Period(s) ==
  CASE s = "Toad" -> 2
    [] s = "Beacon" -> 2
    [] s = "Pulsar" -> 3
    [] s = "PentaDecathlon" -> 15

\* The pattern placed was followed for n ticks and every live set on the
\* way lies strictly inside the grid, away from the axes.
HadRoomFor(n) ==
  /\ Len(placed.orbit) >= n + 1
  /\ \A k \in 1..(n + 1) : StrictlyInside(placed.orbit[k])

\* C25: Toad, Beacon, Pulsar and Penta-decathlon, seeded alone with room,
\* have their initial live set again after N ticks, the least such N being
\* 2, 2, 3 and 15.
C25_OscillatorPeriods ==
  (placed.seed \in {"Toad", "Beacon", "Pulsar", "PentaDecathlon"}
     /\ HadRoomFor(Period(placed.seed))) =>
    /\ placed.orbit[Period(placed.seed) + 1] = placed.orbit[1]
    /\ \A k \in 2..Period(placed.seed) : placed.orbit[k] # placed.orbit[1]

C25_Witness ==
  /\ placed.seed = "PentaDecathlon"
  /\ HadRoomFor(15)
  /\ game.cells = placed.orbit[1]
  /\ ticks = 15

\* C26: the Lightweight, Middleweight and Heavyweight spaceships, seeded
\* alone with room, have after exactly 4 ticks their initial live set
\* translated by a non-zero offset.
C26_SpaceshipsTranslate ==
  (placed.seed \in {"LwSpaceship", "MwSpaceship", "HwSpaceship"} /\ HadRoomFor(4)) =>
    \E dx \in (0 - 4)..4, dy \in (0 - 4)..4 :
      /\ <<dx, dy>> # <<0, 0>>
      /\ placed.orbit[5] = Translate(placed.orbit[1], dx, dy)

C26_Witness ==
  /\ placed.seed = "HwSpaceship"
  /\ HadRoomFor(4)
  /\ ticks = 4
  /\ game.cells # placed.orbit[1]

(***************************************************************************)
(* The shell.  ShellCall holds in the state a handler of the shell leaves, *)
(* Handled(code) in the one handle_input leaves after a press of the key.  *)
(***************************************************************************)
ShellCall == last_call.op \in {"draw", "handle_input"}

GridCalls == IF ShellCall THEN last_call.arg.calls ELSE << >>

TickCount == Cardinality({k \in DOMAIN GridCalls : GridCalls[k].op = "tick"})

Pressed(code) ==
  /\ last_call.op = "handle_input"
  /\ last_call.arg.event.type = "Key"
  /\ last_call.arg.event.kind = "Press"
  /\ last_call.arg.event.code = code

PressedChar(chars) ==
  /\ Pressed("Char")
  /\ last_call.arg.event.ch \in chars

MouseDid(kind) ==
  /\ last_call.op = "handle_input"
  /\ last_call.arg.event.type = "Mouse"
  /\ last_call.arg.event.kind = kind

\* C22: select_seed is total on the u8 indices: the index the shell holds is
\* a u8 and select_seed maps it to a pattern of the catalog; index 0 and
\* every index from 15 up give the single cell; an index in 1..14 gives a
\* named variant that no other index in 1..14 gives, the 14 of them being
\* the 5 still lifes, the 5 oscillators and the 4 spaceships; and every
\* seed or preview call the shell makes is handed the pattern select_seed
\* gives for the index.
C22_SelectSeedTotal ==
  LET i == state.seed_index
      named == {select_seed(j) : j \in 1..MAX_SEEDS}
  IN
  /\ i \in 0..U8_MAX
  /\ select_seed(i) \in Seeds
  /\ (i = 0 \/ i >= MAX_SEEDS + 1) => select_seed(i) = "Cell"
  /\ i \in 1..MAX_SEEDS =>
       /\ select_seed(i) \in Stills \cup Oscillators \cup Spaceships
       /\ \A j \in (1..MAX_SEEDS) \ {i} : select_seed(j) # select_seed(i)
  /\ named = Stills \cup Oscillators \cup Spaceships
  /\ Cardinality(named \cap Stills) = 5
  /\ Cardinality(named \cap Oscillators) = 5
  /\ Cardinality(named \cap Spaceships) = 4
  /\ \A k \in DOMAIN GridCalls :
       GridCalls[k].op \in {"seed", "preview"} =>
         GridCalls[k].arg[1] = select_seed(i)

\* The mouse moved while the index was past every named variant, and the
\* single cell was previewed.
C22_Witness ==
  /\ MouseDid("Moved")
  /\ state.seed_index > MAX_SEEDS + 2
  /\ GridCalls[1].arg[1] = "Cell"

\* C28: in every state of the shell seed_index lies in 0..=MAX_SEEDS.
C28_SeedIndexInRange == state.seed_index \in 0..MAX_SEEDS

\* C29: a handler of the shell calls tick() only in draw while Playing, or
\* on a press of Enter while Paused; that press makes exactly one call, the
\* grid holds the next generation and the play state stays Paused; a press
\* of Enter or of P (or Pause) while Playing leaves the play state Paused
\* and the live cells as they were; any other event that neither seeds nor
\* clears leaves the live cells as they were.
C29_TickOnlyPlayingOrEnter ==
  ShellCall =>
    LET was == last_call.arg.play
        enter == Pressed("Enter")
        pause == Pressed("Pause") \/ PressedChar({"p", "P"})
        ops == {GridCalls[k].op : k \in DOMAIN GridCalls}
    IN
    /\ TickCount > 0 =>
         \/ last_call.op = "draw" /\ was = "Playing" /\ TickCount = 1
         \/ enter /\ was = "Paused"
    /\ (enter /\ was = "Paused") =>
         /\ TickCount = 1
         /\ state.play = "Paused"
         /\ game.cells = tick(before).cells
    /\ ((enter \/ pause) /\ was = "Playing") =>
         /\ TickCount = 0
         /\ state.play = "Paused"
         /\ game.cells = before.cells
    /\ (last_call.op = "handle_input" /\ ~(enter /\ was = "Paused")
          /\ ops \cap {"seed", "clear"} = {}) =>
         game.cells = before.cells

\* Enter was pressed while Paused and the generation computed differs from
\* the one before.
C29_Witness ==
  /\ Pressed("Enter")
  /\ last_call.arg.play = "Paused"
  /\ TickCount = 1
  /\ game.cells # before.cells

\* C30: on a mouse-down or mouse-move event at (column, row) the shell makes
\* one call, seed or preview, whose origin has x = column and y = row.
C30_MouseOriginIsColumnRow ==
  (MouseDid("Down") \/ MouseDid("Moved")) =>
    /\ Len(GridCalls) = 1
    /\ GridCalls[1].op = (IF MouseDid("Down") THEN "seed" ELSE "preview")
    /\ GridCalls[1].arg[2] =
         <<last_call.arg.event.column, last_call.arg.event.row>>
====
